---- MODULE Spec2Model ----
(***************************************************************************)
(* Model of ContentType.py: a batch job that loads a workbook, makes sure  *)
(* the Title/Body/Error columns exist, collects the rows whose ID is in    *)
(* [100, 100000], fetches one HTTP response per collected row, writes the  *)
(* result (or an error marker) into the row and saves the file after every *)
(* successful row.                                                         *)
(***************************************************************************)
EXTENDS Integers, Sequences, FiniteSets, TLC

VARIABLES
    disk,          \* the file at args.excel_path
    wb,            \* the in-memory workbook (sheet args.sheet_name)
    pc,            \* position of main()
    exit_status,   \* process exit status, -1 while running
    exit_reason,   \* which path ended the run
    cols,          \* (id_col_idx, title_col_idx, body_col_idx, error_col_idx)
    id_rows,       \* collected (id, row) pairs
    idx,           \* position of the for loop over id_rows (1-based)
    error_ids,     \* the error list
    response,      \* the local variable `response` of main()
    error_url,     \* the local variable `error_url` of main()
    nreq,          \* number of requests.get calls made; also the clock
    nsaves,        \* number of wb.save calls made
    reported,      \* the final error report has been printed
    outcomes,      \* per processed pair, how its iteration ended
    hdr_writes     \* number of header cells written by process_excel

vars == <<disk, wb, pc, exit_status, exit_reason, cols, id_rows, idx,
          error_ids, response, error_url, nreq, nsaves, reported, outcomes,
          hdr_writes>>

----------------------------------------------------------------------------
(* Bounds *)
MaxRows == 2       \* most data rows of an input sheet
MaxElems == 2      \* longest JSON array of a response
MaxHdrLen == 3     \* longest header row of the header-setup runs

(* Program constants *)
MinId == 100
MaxId == 100000
StatusOK == 200
DefaultTypeId == 0
DefaultInterfaceId == 3

SheetName == "ids"
TitleKey == "title"
BodyKey == "body"

----------------------------------------------------------------------------
(* Cell values.  A cell holds None, an integer or a string; strings are    *)
(* sequences of one-character strings so that int() can be computed.       *)
NoneCell == [t |-> "none"]
IntCell(n) == [t |-> "int", i |-> n]
StrCell(s) == [t |-> "str", s |-> s]
OldCell == StrCell(<<"o">>)

Range(s) == {s[k] : k \in 1..Len(s)}

BoundedSeq(S, n) == UNION {[1..k -> S] : k \in 0..n}

IndexOf(s, x) == IF x \in Range(s)
                 THEN CHOOSE k \in 1..Len(s) : s[k] = x /\ \A j \in 1..(k-1) : s[j] # x
                 ELSE 0

Max(a, b) == IF a >= b THEN a ELSE b

(* openpyxl keeps cells sparsely: a cell never written reads as None, and  *)
(* writing past the end of a row widens it.                                *)
GetCell(row, c) == IF c \in 1..Len(row) THEN row[c] ELSE NoneCell

SetCell(row, c, v) ==
    [k \in 1..Max(Len(row), c) |-> IF k = c THEN v ELSE GetCell(row, k)]

(* sheet.cell(row=row_num, column=c, value=v): data row row_num is         *)
(* rows[row_num - 1], row 1 being the header row.                          *)
WriteCell(sheet, row_num, c, v) ==
    [sheet EXCEPT !.rows[row_num - 1] = SetCell(@, c, v)]

ReadCell(sheet, row_num, c) == GetCell(sheet.rows[row_num - 1], c)

----------------------------------------------------------------------------
(* int(value) of Python on a cell value: an int is itself, None raises     *)
(* TypeError, a string is stripped of blanks, may carry a sign and single  *)
(* underscores between digits, and raises ValueError otherwise.            *)
DigitVal == ("0" :> 0) @@ ("1" :> 1) @@ ("2" :> 2) @@ ("3" :> 3) @@ ("4" :> 4)
            @@ ("5" :> 5) @@ ("6" :> 6) @@ ("7" :> 7) @@ ("8" :> 8) @@ ("9" :> 9)

IsDigit(c) == c \in DOMAIN DigitVal

RECURSIVE LStrip(_)
LStrip(s) == IF s # <<>> /\ Head(s) = " " THEN LStrip(Tail(s)) ELSE s

RECURSIVE RStrip(_)
RStrip(s) == IF s # <<>> /\ s[Len(s)] = " "
             THEN RStrip(SubSeq(s, 1, Len(s) - 1)) ELSE s

Strip(s) == RStrip(LStrip(s))

ValidDigits(s) ==
    /\ s # <<>>
    /\ \A k \in 1..Len(s) :
          \/ IsDigit(s[k])
          \/ /\ s[k] = "_"
             /\ 1 < k /\ k < Len(s)
             /\ IsDigit(s[k-1]) /\ IsDigit(s[k+1])

RECURSIVE DigitsValue(_, _)
DigitsValue(s, acc) ==
    IF s = <<>> THEN acc
    ELSE IF Head(s) = "_" THEN DigitsValue(Tail(s), acc)
    ELSE DigitsValue(Tail(s), 10 * acc + DigitVal[Head(s)])

Raised(e) == [ok |-> FALSE, exc |-> e]
Returned(v) == [ok |-> TRUE, v |-> v]

ParseIntStr(s) ==
    LET t == Strip(s)
        signed == t # <<>> /\ Head(t) \in {"+", "-"}
        d == IF signed THEN Tail(t) ELSE t
    IN  IF ~ValidDigits(d) THEN Raised("ValueError")
        ELSE IF signed /\ Head(t) = "-" THEN Returned(0 - DigitsValue(d, 0))
        ELSE Returned(DigitsValue(d, 0))

PyInt(cell) ==
    CASE cell.t = "int"  -> Returned(cell.i)
      [] cell.t = "str"  -> ParseIntStr(cell.s)
      [] OTHER           -> Raised("TypeError")

----------------------------------------------------------------------------
(* process_excel(sheet, args)                                              *)

(* lines 28-36 without the membership tests *)
NewHeadersAppended(headers) == headers \o <<"Title", "Body", "Error">>

(* lines 25-36: new_headers *)
NewHeaders(headers) ==
    LET h1 == IF "Title" \notin Range(headers) THEN Append(headers, "Title") ELSE headers
        h2 == IF "Body" \notin Range(h1) THEN Append(h1, "Body") ELSE h1
        h3 == IF "Error" \notin Range(h2) THEN Append(h2, "Error") ELSE h2
    IN  h3

ColumnsAdded(headers) ==
    \/ "Title" \notin Range(headers)
    \/ "Body" \notin Range(headers)
    \/ "Error" \notin Range(headers)

NoCols == [id |-> 0, title |-> 0, body |-> 0, error |-> 0]

(* The header row is rewritten (every cell of it, in bold) before the ID   *)
(* column is looked up, so it is rewritten also when the lookup raises.    *)
ProcessExcel(sheet) ==
    LET headers == sheet.hdr
        new_headers == NewHeaders(headers)
        added == ColumnsAdded(headers)
    IN  [sheet  |-> IF added THEN [sheet EXCEPT !.hdr = new_headers] ELSE sheet,
         writes |-> IF added THEN Len(new_headers) ELSE 0,
         raised |-> "ID" \notin Range(headers),
         cols   |-> [id    |-> IndexOf(headers, "ID"),
                     title |-> IndexOf(new_headers, "Title"),
                     body  |-> IndexOf(new_headers, "Body"),
                     error |-> IndexOf(new_headers, "Error")]]

(* update_error(errors, id_value, row_num, url) *)
UpdateError(errors, id_value, row_num, url) ==
    Append(errors, [id |-> id_value, row |-> row_num, url |-> url])

(* get_error_url(id): the page URL with the id formatted into it *)
GetErrorUrl(id) == [t |-> "url", page |-> id]

(* The URL requests builds from base_url and params: response.url *)
RequestUrl(id_value, now) ==
    [questionId |-> id_value, typeId |-> DefaultTypeId, id |-> id_value,
     interfaceId |-> DefaultInterfaceId, ts |-> now]

(* line 98, with a boundary left out *)
InRangeExclusive(v) == MinId < v /\ v < MaxId

(* line 98: 100 <= id_value <= 100000 *)
InRange(v) == MinId <= v /\ v <= MaxId

(* The scan of the data rows, row 2 onward, lines 94-102 *)
RECURSIVE CollectFrom(_, _, _)
CollectFrom(rows, k, id_col_idx) ==
    IF k > Len(rows) THEN <<>>
    ELSE LET p == PyInt(GetCell(rows[k], id_col_idx))
             here == IF p.ok /\ InRange(p.v)
                     THEN <<[id |-> p.v, row |-> k + 1]>>
                     ELSE <<>>
         IN  here \o CollectFrom(rows, k + 1, id_col_idx)

CollectIds(sheet, id_col_idx) == CollectFrom(sheet.rows, 1, id_col_idx)

(* dict.get(key, '') on a parsed JSON object, a set of <<key, value>>     *)
(* pairs with one pair per key; '' is the empty string <<>>.               *)
DictGet(d, key) ==
    IF \E p \in d : p[1] = key
    THEN (CHOOSE p \in d : p[1] = key)[2]
    ELSE <<>>

(* line 132 with 'application/json' as the default of headers.get *)
IsJsonOrMissing(ct) ==
    ct \in {"", "application/json", "application/json; charset=utf-8"}

(* lines 132-133: 'application/json' in content_type *)
IsJsonContentType(ct) == ct \in {"application/json", "application/json; charset=utf-8"}

----------------------------------------------------------------------------
(* Inputs *)
HeaderInputs ==
    { <<"Name">>, <<"ID">>, <<"Name", "ID">>, <<"Error", "ID">>,
      <<"ID", "Error", "Title", "Body">> }

HeaderNames == {"ID", "Name", "Title", "Body", "Error"}

IdCells ==
    { NoneCell, IntCell(MinId - 1), IntCell(MinId), IntCell(MaxId),
      IntCell(MaxId + 1), StrCell(<<"a", "b">>), StrCell(<<" ", "2", "5", "0">>) }

(* A data row of the file: the ID cell under the ID header, and the other  *)
(* cells either all empty or all left filled by an earlier run.            *)
InputRow(hdr, idcell, filled) ==
    [c \in 1..Len(hdr) |->
        IF hdr[c] = "ID" /\ c = IndexOf(hdr, "ID") THEN idcell
        ELSE IF filled THEN OldCell ELSE NoneCell]

InputSheets ==
    { [kind |-> "xlsx", sheetnames |-> {SheetName, "other"}, hdr |-> h,
       rows |-> [k \in 1..Len(ids) |-> InputRow(h, ids[k], filled)]] :
         h \in HeaderInputs, ids \in BoundedSeq(IdCells, MaxRows), filled \in BOOLEAN }

NoSheet == [kind |-> "xlsx", sheetnames |-> {"other"}, hdr |-> <<>>, rows |-> <<>>]
MissingFile == [kind |-> "missing", sheetnames |-> {}, hdr |-> <<>>, rows |-> <<>>]
InvalidFile == [kind |-> "invalid", sheetnames |-> {}, hdr |-> <<>>, rows |-> <<>>]
NoWorkbook == [kind |-> "none", sheetnames |-> {}, hdr |-> <<>>, rows |-> <<>>]

(* Parsed JSON objects and response bodies *)
JsonObjects ==
    { {}, {<<TitleKey, <<"T">>>>}, {<<TitleKey, <<"T">>>>, <<BodyKey, <<"B">>>>} }

InvalidBody == [parses |-> FALSE, data |-> <<>>]

JsonBodies == { [parses |-> TRUE, data |-> a] : a \in BoundedSeq(JsonObjects, MaxElems) }

(* A local variable of main() that no statement has assigned yet *)
Unbound == [bound |-> FALSE]

ResponseInputs ==
    { [status_code |-> 500, content_type |-> "text/html", body |-> InvalidBody],
      [status_code |-> StatusOK, content_type |-> "text/html", body |-> InvalidBody],
      [status_code |-> StatusOK, content_type |-> "", body |-> InvalidBody],
      [status_code |-> StatusOK, content_type |-> "application/json", body |-> InvalidBody] }
    \cup
    { [status_code |-> StatusOK, content_type |-> "application/json; charset=utf-8", body |-> b] :
        b \in JsonBodies }

----------------------------------------------------------------------------
Init ==
    /\ disk \in InputSheets \cup {NoSheet, MissingFile, InvalidFile}
    /\ wb = NoWorkbook
    /\ pc = "load"
    /\ exit_status = -1
    /\ exit_reason = "running"
    /\ cols = NoCols
    /\ id_rows = <<>>
    /\ idx = 0
    /\ error_ids = <<>>
    /\ response = Unbound
    /\ error_url = Unbound
    /\ nreq = 0
    /\ nsaves = 0
    /\ reported = FALSE
    /\ outcomes = <<>>
    /\ hdr_writes = 0

(* sys.exit() called without the status *)
ExitZero(status, reason) ==
    /\ pc' = "exited"
    /\ exit_status' = 0
    /\ exit_reason' = reason

(* sys.exit(status), a return from main(), or an uncaught exception *)
Exit(status, reason) ==
    /\ pc' = "exited"
    /\ exit_status' = status
    /\ exit_reason' = reason

(* lines 71-78: openpyxl.load_workbook(args.excel_path) *)
LoadWorkbook ==
    /\ pc = "load"
    /\ CASE disk.kind = "missing" ->
              /\ Exit(1, "file_not_found")
              /\ UNCHANGED wb
         [] disk.kind = "invalid" ->
              /\ Exit(1, "invalid_file")
              /\ UNCHANGED wb
         [] OTHER ->
              /\ wb' = disk
              /\ pc' = "sheet"
              /\ UNCHANGED <<exit_status, exit_reason>>
    /\ UNCHANGED <<disk, cols, id_rows, idx, error_ids, response, error_url,
                   nreq, nsaves, reported, outcomes, hdr_writes>>

(* lines 80-85 *)
SelectSheet ==
    /\ pc = "sheet"
    /\ IF SheetName \notin wb.sheetnames
       THEN Exit(1, "sheet_not_found")
       ELSE /\ pc' = "setup"
            /\ UNCHANGED <<exit_status, exit_reason>>
    /\ UNCHANGED <<disk, wb, cols, id_rows, idx, error_ids, response, error_url,
                   nreq, nsaves, reported, outcomes, hdr_writes>>

(* lines 87-91: process_excel, ValueError when there is no ID header *)
SetupColumns ==
    /\ pc = "setup"
    /\ LET r == ProcessExcel(wb)
       IN  /\ wb' = r.sheet
           /\ hdr_writes' = hdr_writes + r.writes
           /\ IF r.raised
              THEN /\ Exit(1, "id_column_not_found")
                   /\ UNCHANGED cols
              ELSE /\ cols' = r.cols
                   /\ pc' = "collect"
                   /\ UNCHANGED <<exit_status, exit_reason>>
    /\ UNCHANGED <<disk, id_rows, idx, error_ids, response, error_url,
                   nreq, nsaves, reported, outcomes>>

(* lines 93-111: the scan, the early return, the loop's set-up *)
Collect ==
    /\ pc = "collect"
    /\ id_rows' = CollectIds(wb, cols.id)
    /\ IF id_rows' = <<>>
       THEN /\ Exit(0, "no_valid_ids")
            /\ UNCHANGED idx
       ELSE /\ pc' = "loop"
            /\ idx' = 1
            /\ UNCHANGED <<exit_status, exit_reason>>
    /\ UNCHANGED <<disk, wb, cols, error_ids, response, error_url,
                   nreq, nsaves, reported, outcomes, hdr_writes>>

----------------------------------------------------------------------------
(* The for loop over id_rows, lines 112-163 *)
InLoop == pc = "loop" /\ idx \in 1..Len(id_rows)

CurId == id_rows[idx].id
CurRow == id_rows[idx].row

(* What later iterations can read of an earlier response: handlers at     *)
(* lines 159-163 read response.url only.                                   *)
Kept(r) == [bound |-> TRUE, url |-> r.url]

(* line 156 left out *)
SaveNothing(file, book) == file

(* line 156, wb.save(args.excel_path): the file becomes the in-memory      *)
(* workbook                                                                *)
Save(file, book) == book

(* data[0] *)
FirstElement(data) == data[1]

(* `continue`, or the end of the loop body *)
NextPair(kind) ==
    /\ idx' = idx + 1
    /\ pc' = "loop"
    /\ outcomes' = Append(outcomes, kind)
    /\ UNCHANGED <<exit_status, exit_reason>>

(* An exception no handler catches: traceback, exit status 1 *)
Uncaught(kind) ==
    /\ Exit(1, "uncaught")
    /\ outcomes' = Append(outcomes, kind)
    /\ UNCHANGED idx

(* line 123, requests.get raises a RequestException: control goes to the  *)
(* handler at line 159 with response and error_url as they were.           *)
RequestFails ==
    /\ InLoop
    /\ nreq' = nreq + 1
    /\ pc' = "except"
    /\ UNCHANGED <<disk, wb, exit_status, exit_reason, cols, id_rows, idx,
                   error_ids, response, error_url, nsaves, reported, outcomes,
                   hdr_writes>>

(* lines 123-125, requests.get returns *)
RequestReturns ==
    /\ InLoop
    /\ nreq' = nreq + 1
    /\ \E r \in ResponseInputs :
          response' = [bound |-> TRUE, url |-> RequestUrl(CurId, nreq'),
                       status_code |-> r.status_code,
                       content_type |-> r.content_type, body |-> r.body]
    /\ error_url' = GetErrorUrl(CurId)
    /\ pc' = "resp"
    /\ UNCHANGED <<disk, wb, exit_status, exit_reason, cols, id_rows, idx,
                   error_ids, nsaves, reported, outcomes, hdr_writes>>

(* lines 126-130 *)
BadStatus ==
    /\ pc = "resp"
    /\ response.status_code # StatusOK
    /\ error_ids' = UpdateError(error_ids, CurId, CurRow, response.url)
    /\ wb' = WriteCell(wb, CurRow, cols.error, error_url)
    /\ response' = Kept(response)
    /\ NextPair("bad_status")
    /\ UNCHANGED <<disk, cols, id_rows, error_url, nreq, nsaves, reported,
                   hdr_writes>>

(* lines 132-135 *)
NonJson ==
    /\ pc = "resp"
    /\ response.status_code = StatusOK
    /\ ~IsJsonContentType(response.content_type)
    /\ response' = Kept(response)
    /\ NextPair("non_json")
    /\ UNCHANGED <<disk, wb, cols, id_rows, error_ids, error_url, nreq, nsaves,
                   reported, hdr_writes>>

(* lines 137-146, response.json() raises json.JSONDecodeError *)
InvalidJson ==
    /\ pc = "resp"
    /\ response.status_code = StatusOK
    /\ IsJsonContentType(response.content_type)
    /\ ~response.body.parses
    /\ wb' = WriteCell(wb, CurRow, cols.error, error_url)
    /\ error_ids' = UpdateError(error_ids, CurId, CurRow, response.url)
    /\ response' = Kept(response)
    /\ NextPair("invalid_json")
    /\ UNCHANGED <<disk, cols, id_rows, error_url, nreq, nsaves, reported,
                   hdr_writes>>

(* lines 138-148, the parsed array is empty: data[0] raises IndexError,   *)
(* which is no RequestException.                                           *)
EmptyArray ==
    /\ pc = "resp"
    /\ response.status_code = StatusOK
    /\ IsJsonContentType(response.content_type)
    /\ response.body.parses
    /\ Len(response.body.data) = 0
    /\ response' = Kept(response)
    /\ Uncaught("empty_array")
    /\ UNCHANGED <<disk, wb, cols, id_rows, error_ids, error_url, nreq, nsaves,
                   reported, hdr_writes>>

(* lines 138-157 *)
Success ==
    /\ pc = "resp"
    /\ response.status_code = StatusOK
    /\ IsJsonContentType(response.content_type)
    /\ response.body.parses
    /\ Len(response.body.data) > 0
    /\ LET first == FirstElement(response.body.data)
           title == DictGet(first, TitleKey)
           body == DictGet(first, BodyKey)
           w1 == WriteCell(wb, CurRow, cols.title, StrCell(title))
           w2 == WriteCell(w1, CurRow, cols.body, StrCell(body))
       IN  /\ wb' = w2
           /\ disk' = Save(disk, w2)
    /\ nsaves' = nsaves + 1
    /\ response' = Kept(response)
    /\ NextPair("ok")
    /\ UNCHANGED <<cols, id_rows, error_ids, error_url, nreq, reported,
                   hdr_writes>>

(* lines 159-163.  error_url is assigned at line 125 only, after a         *)
(* requests.get that returned: reading it before that raises               *)
(* UnboundLocalError inside the handler, which nothing catches.            *)
RequestException ==
    /\ pc = "except"
    /\ IF error_url = Unbound
       THEN /\ Uncaught("request_failed")
            /\ UNCHANGED <<wb, error_ids>>
       ELSE /\ wb' = WriteCell(wb, CurRow, cols.error, error_url)
            /\ error_ids' = UpdateError(error_ids, CurId, CurRow, response.url)
            /\ NextPair("request_failed")
    /\ UNCHANGED <<disk, cols, id_rows, response, error_url, nreq, nsaves,
                   reported, hdr_writes>>

(* lines 165-169: the error report, then main() returns *)
Report ==
    /\ pc = "loop"
    /\ idx > Len(id_rows)
    /\ reported' = TRUE
    /\ Exit(0, "completed")
    /\ UNCHANGED <<disk, wb, cols, id_rows, idx, error_ids, response, error_url,
                   nreq, nsaves, outcomes, hdr_writes>>

Next ==
    \/ LoadWorkbook
    \/ SelectSheet
    \/ SetupColumns
    \/ Collect
    \/ RequestFails
    \/ RequestReturns
    \/ BadStatus
    \/ NonJson
    \/ InvalidJson
    \/ EmptyArray
    \/ Success
    \/ RequestException
    \/ Report

Spec == Init /\ [][Next]_vars

----------------------------------------------------------------------------
(* Header setup on its own: process_excel applied to a sheet with any      *)
(* header row, and applied again to the sheet it left (a second run on a   *)
(* sheet the first one migrated).                                          *)
HeaderSheets ==
    { [kind |-> "xlsx", sheetnames |-> {SheetName}, hdr |-> h, rows |-> <<>>] :
         h \in BoundedSeq(HeaderNames, MaxHdrLen) }

InitHdr ==
    /\ disk \in HeaderSheets
    /\ wb = disk
    /\ pc = "setup1"
    /\ exit_status = -1
    /\ exit_reason = "running"
    /\ cols = NoCols
    /\ id_rows = <<>>
    /\ idx = 0
    /\ error_ids = <<>>
    /\ response = Unbound
    /\ error_url = Unbound
    /\ nreq = 0
    /\ nsaves = 0
    /\ reported = FALSE
    /\ outcomes = <<>>
    /\ hdr_writes = 0

SetupAgain ==
    /\ pc \in {"setup1", "setup2"}
    /\ LET r == ProcessExcel(wb)
       IN  /\ wb' = r.sheet
           /\ hdr_writes' = hdr_writes + r.writes
           /\ IF r.raised
              THEN /\ Exit(1, "id_column_not_found")
                   /\ UNCHANGED cols
              ELSE /\ cols' = r.cols
                   /\ pc' = IF pc = "setup1" THEN "setup2" ELSE "setup_done"
                   /\ UNCHANGED <<exit_status, exit_reason>>
    /\ UNCHANGED <<disk, id_rows, idx, error_ids, response, error_url,
                   nreq, nsaves, reported, outcomes>>

NextHdr == SetupAgain

SpecHdr == InitHdr /\ [][NextHdr]_vars

----------------------------------------------------------------------------
(* Properties *)

Populated(cell) == cell # NoneCell

FailureKinds == {"request_failed", "bad_status", "invalid_json"}

JsonContentTypes == {"application/json", "application/json; charset=utf-8"}

Count(s, x) == Cardinality({k \in 1..Len(s) : s[k] = x})

(* Data row r of a sheet (rows[r], spreadsheet row r + 1) has an ID cell   *)
(* that int() rejects or that lies outside [MinId, MaxId].                 *)
ExcludedRow(sheet, r) ==
    LET p == PyInt(GetCell(sheet.rows[r], IndexOf(sheet.hdr, "ID")))
    IN  ~(p.ok /\ MinId <= p.v /\ p.v <= MaxId)

CannotOpen == disk.kind \in {"missing", "invalid"}
SheetAbsent == disk.kind = "xlsx" /\ SheetName \notin disk.sheetnames
HeaderLacksId ==
    disk.kind = "xlsx" /\ SheetName \in disk.sheetnames /\ "ID" \notin Range(disk.hdr)
NoValidIds ==
    /\ disk.kind = "xlsx" /\ SheetName \in disk.sheetnames /\ "ID" \in Range(disk.hdr)
    /\ \A r \in 1..Len(disk.rows) : ExcludedRow(disk, r)

(* The fetch of the current pair has failed: requests.get raised, or the   *)
(* response has a status other than 200 or a JSON body that does not parse *)
FetchFails ==
    \/ pc = "except"
    \/ /\ pc = "resp"
       /\ \/ response.status_code # StatusOK
          \/ /\ response.content_type \in JsonContentTypes
             /\ ~response.body.parses

(* C1: a failing row never aborts the batch: a run that entered the loop   *)
(* and whose pairs all ended in a network failure, a non-200 status or an  *)
(* invalid JSON body has processed every pair and printed the report when  *)
(* it ends.                                                                *)
C1_FailureNeverAborts ==
    (/\ pc = "exited"
     /\ id_rows # <<>>
     /\ \A k \in 1..Len(outcomes) : outcomes[k] \in FailureKinds)
    => (reported /\ Len(outcomes) = Len(id_rows))

(* C2: after a completed run, every collected row whose response was not   *)
(* of a non-JSON content type has exactly one of {Title and Body           *)
(* populated, Error populated}.                                            *)
C2_ExactlyOneOutcome ==
    (pc = "exited" /\ exit_reason = "completed") =>
        \A k \in 1..Len(id_rows) :
            outcomes[k] # "non_json" =>
                LET row == id_rows[k].row
                    tb == /\ Populated(ReadCell(wb, row, cols.title))
                          /\ Populated(ReadCell(wb, row, cols.body))
                    e == Populated(ReadCell(wb, row, cols.error))
                IN  tb # e

(* C3: at every point after the save of a successfully processed row, the  *)
(* file holds that row's Title and Body as written, and right after the    *)
(* save (no later pair handled yet) the file equals the in-memory          *)
(* workbook.                                                               *)
C3_SavedThroughRowN ==
    \A k \in 1..Len(outcomes) :
        outcomes[k] = "ok" =>
            LET row == id_rows[k].row
            IN  /\ disk.kind = "xlsx"
                /\ Populated(ReadCell(disk, row, cols.title))
                /\ Populated(ReadCell(disk, row, cols.body))
                /\ ReadCell(disk, row, cols.title) = ReadCell(wb, row, cols.title)
                /\ ReadCell(disk, row, cols.body) = ReadCell(wb, row, cols.body)
                /\ (k = Len(outcomes) => disk = wb)

C3_Witness ==
    /\ Len(outcomes) = 2
    /\ outcomes[1] = "ok"
    /\ outcomes[2] \in FailureKinds
    /\ disk # wb
    /\ ReadCell(disk, id_rows[1].row, cols.title) = StrCell(<<"T">>)

(* C4: when a run completes, every row with an entry in the error list has *)
(* its Error cell populated in the file on disk.                           *)
C4_ErrorColumnDurable ==
    (pc = "exited" /\ exit_reason = "completed") =>
        \A k \in 1..Len(error_ids) :
            Populated(ReadCell(disk, error_ids[k].row, cols.error))

(* C5: the collected pairs are exactly the data rows whose ID parses to an *)
(* integer in [100, 100000], in row order and with their own row numbers;  *)
(* no step modifies a cell of an excluded row, in memory or in the file,   *)
(* and every request is issued for a collected row.                        *)
C5_CollectedExactly(sheet, pairs) ==
    /\ \A k \in 1..Len(pairs) :
          /\ pairs[k].row \in 2..(Len(sheet.rows) + 1)
          /\ LET p == PyInt(GetCell(sheet.rows[pairs[k].row - 1], IndexOf(sheet.hdr, "ID")))
             IN  p.ok /\ p.v = pairs[k].id /\ MinId <= p.v /\ p.v <= MaxId
          /\ \A j \in 1..(k - 1) : pairs[j].row < pairs[k].row
    /\ \A r \in 1..Len(sheet.rows) :
          ~ExcludedRow(sheet, r) => \E k \in 1..Len(pairs) : pairs[k].row = r + 1

C5_ExcludedRowsUntouched ==
    [][/\ (pc = "collect" \/ pc \in {"loop", "resp", "except"})
            => C5_CollectedExactly(wb', id_rows')
       /\ (pc # "load" /\ wb.kind = "xlsx") =>
            \A r \in 1..Len(wb.rows) :
                ExcludedRow(wb, r) =>
                    /\ wb'.rows[r] = wb.rows[r]
                    /\ disk'.rows[r] = disk.rows[r]
       /\ nreq' # nreq =>
            /\ InLoop
            /\ ~ExcludedRow(wb, CurRow - 1)
            /\ nreq' = nreq + 1
      ]_vars

C5_Witness ==
    /\ pc = "exited"
    /\ exit_reason = "completed"
    /\ Len(id_rows) = 1
    /\ id_rows[1].row = 3
    /\ id_rows[1].id = 250
    /\ wb.rows[1][cols.id] = IntCell(MaxId + 1)
    /\ nsaves = 1

(* C6: for a header row containing ID, process_excel keeps the existing    *)
(* headers as a prefix and appends each of Title, Body, Error only if it   *)
(* is absent; applied again to the sheet it left, it adds no column and    *)
(* writes no header cell.                                                  *)
C6_HeaderSetupIdempotent ==
    [][/\ (pc = "setup1" /\ "ID" \in Range(disk.hdr)) =>
            /\ SubSeq(wb'.hdr, 1, Len(disk.hdr)) = disk.hdr
            /\ \A x \in {"Title", "Body", "Error"} :
                  Count(wb'.hdr, x) = IF x \in Range(disk.hdr) THEN Count(disk.hdr, x) ELSE 1
            /\ Len(wb'.hdr) =
                  Len(disk.hdr) + Cardinality({"Title", "Body", "Error"} \ Range(disk.hdr))
            /\ hdr_writes' = IF Len(wb'.hdr) > Len(disk.hdr) THEN Len(wb'.hdr) ELSE 0
       /\ pc = "setup2" =>
            /\ wb' = wb
            /\ hdr_writes' = hdr_writes
            /\ cols' = cols
            /\ pc' = "setup_done"
      ]_vars

C6_Witness ==
    /\ pc = "setup_done"
    /\ "Body" \in Range(disk.hdr)
    /\ "Title" \notin Range(disk.hdr)
    /\ Len(wb.hdr) = Len(disk.hdr) + 2
    /\ hdr_writes = Len(wb.hdr)

(* C7: the run ends with status 1 when the file cannot be opened, the      *)
(* sheet is absent or the header row lacks ID, with status 0 when no valid *)
(* ID is found and on normal completion; on the first four paths no        *)
(* request is ever issued, no report printed and the file never written.   *)
C7_ExitStatus ==
    /\ (CannotOpen \/ SheetAbsent \/ HeaderLacksId \/ NoValidIds) =>
          (nreq = 0 /\ ~reported /\ nsaves = 0)
    /\ pc = "exited" =>
          /\ (CannotOpen \/ SheetAbsent \/ HeaderLacksId) => exit_status = 1
          /\ NoValidIds => exit_status = 0
          /\ reported => exit_status = 0
    /\ pc # "exited" => exit_status = -1

C7_Witness ==
    /\ pc = "exited"
    /\ HeaderLacksId
    /\ exit_status = 1
    /\ hdr_writes > 0
    /\ Len(disk.rows) > 0

(* C8: for every row whose fetch fails, the row's Error cell is set to the *)
(* error-reference URL of the row's own ID and exactly one error entry is  *)
(* appended, with the row's id and row and the URL of the row's request.   *)
C8_ErrorMarksOwnRow ==
    [][FetchFails =>
          /\ ReadCell(wb', CurRow, cols.error) = GetErrorUrl(CurId)
          /\ error_ids' = Append(error_ids,
                 [id |-> CurId, row |-> CurRow, url |-> RequestUrl(CurId, nreq)])
      ]_vars

(* The same statement for the failing fetches whose handler runs to its    *)
(* end: it fails too, the handler at lines 159-163 writing the error_url   *)
(* and response.url an earlier iteration left.                             *)
StaleErrorMarker ==
    [][(FetchFails /\ pc' = "loop") =>
          /\ ReadCell(wb', CurRow, cols.error) = GetErrorUrl(CurId)
          /\ error_ids' = Append(error_ids,
                 [id |-> CurId, row |-> CurRow, url |-> RequestUrl(CurId, nreq)])
      ]_vars

(* C9: for every row whose response has status 200, a JSON content type    *)
(* and a body that parses, whatever the number of elements, Title and Body *)
(* are set from the first element ('' for a missing key), no error entry   *)
(* is recorded, the Error cell is not written and the workbook is saved    *)
(* before the loop goes on.                                                *)
C9_ParsedJsonFillsRow ==
    [][(/\ pc = "resp"
        /\ response.status_code = StatusOK
        /\ response.content_type \in JsonContentTypes
        /\ response.body.parses) =>
          /\ Len(response.body.data) >= 1
          /\ ReadCell(wb', CurRow, cols.title)
                = StrCell(DictGet(response.body.data[1], TitleKey))
          /\ ReadCell(wb', CurRow, cols.body)
                = StrCell(DictGet(response.body.data[1], BodyKey))
          /\ error_ids' = error_ids
          /\ ReadCell(wb', CurRow, cols.error) = ReadCell(wb, CurRow, cols.error)
          /\ disk' = wb'
          /\ nreq' = nreq
          /\ pc' = "loop" /\ idx' = idx + 1
      ]_vars

(* C10: a status-200 response with a non-JSON content type is a soft skip: *)
(* no cell of the workbook changes, no error entry is appended, the file   *)
(* is not saved and the loop goes on with the next pair.                   *)
C10_NonJsonSoftSkip ==
    [][(/\ pc = "resp"
        /\ response.status_code = StatusOK
        /\ response.content_type \notin JsonContentTypes) =>
          /\ wb' = wb
          /\ error_ids' = error_ids
          /\ disk' = disk
          /\ nsaves' = nsaves
          /\ pc' = "loop" /\ idx' = idx + 1
          /\ exit_status' = -1
      ]_vars

C10_Witness ==
    /\ Len(outcomes) = 2
    /\ outcomes[1] = "non_json"
    /\ outcomes[2] = "ok"
    /\ id_rows[1].row = 2
    /\ ReadCell(wb, 2, cols.title) = NoneCell
    /\ ReadCell(wb, 2, cols.error) = NoneCell

====
